---------------------------- MODULE Spec2Model ----------------------------
(***************************************************************************)
(* State-machine model of the capital-preservation risk engine             *)
(* (src/core/risk_manager.rs) of the autonomous trading core.              *)
(*                                                                         *)
(* Every method of RiskManager is cut into steps at its accesses to shared *)
(* state (an atomic load or store, a mutex acquisition); a step is named   *)
(* after the method and the source line of the access, e.g. crl_133 is     *)
(* line 133 of check_risk_limits.  Amounts of money are whole dollars;     *)
(* f64 ratios against the limits 0.30, 0.10, 0.20, 0.7 and 0.5 are         *)
(* evaluated exactly, by cross-multiplication, with the IEEE-754 results   *)
(* of a division by zero (NaN, +inf) spelled out.  For the small integers  *)
(* used here the f64 quotient compares with the rounded literal exactly as *)
(* the rational quotient compares with the decimal.                        *)
(*                                                                         *)
(* The discovery engine (src/core/discovery_engine.rs) is modelled with    *)
(* its persistence store: the tables discovered_patterns and test_results  *)
(* and the availability of the database.  A Vec<TestResult> is a bag: the  *)
(* number of results of each kind, which is all that validate_pattern and  *)
(* calculate_sharpe_ratio depend on.                                       *)
(***************************************************************************)
EXTENDS Integers, Sequences, FiniteSets, TLC

\* ------------------------------------------------------------------ bounds
\* The clock advances in steps of TickMinutes, at most MaxTicks times.
MaxTicks == 2
TickMinutes == 10

\* Inputs of the public operations.
StartingCapitals == {100}
NewCapitals == {60, 70, 100, 200}
LowCapitals == {60}
OrderSizes == {50, 60}
Hashes == {"h1", "h2"}
EntryCounts == {1, 5}
ExitCounts == {3}
Timeframes == {1439}
SampleLens == {99, 100, 101}
SampleWins == {54, 55, 56}
SizingWinRates == {0, 54, 55, 60, 100}
SizingAmounts == {-3, 0, 1, 2}
AvailableCapitals == {0, 19, 20, 40, 100, 1000}
Patterns == {"A", "B"}
CorrValues == {60, 80}

\* --------------------------------------------------- program constants
max_daily_drawdown_pct == 30
max_concurrent_positions == 10
loss_limit_15min_pct == 10
loss_limit_1hr_pct == 20
max_correlation_pct == 70
max_order_capital_pct == 50
cooldown_15min_secs == 3600
cooldown_1hr_secs == 21600
min_win_rate_pct == 55
kelly_fraction_pct == 25
max_position_size_pct == 25
min_position_size == 5
min_tests_required == 100
annualization == 252

\* ------------------------------------------------------------------ state
Threads == {"monitor", "exec"}
NoThread == "none"
Locks == {"current_capital", "daily_high", "losses_15min", "losses_1hr",
          "losses_24hr", "open_positions", "position_correlations"}

VARIABLES
    emergency_stop,          \* AtomicBool
    circuit_breaker_15min,   \* AtomicBool
    circuit_breaker_1hr,     \* AtomicBool
    current_capital,         \* Mutex<f64>
    daily_high,              \* Mutex<f64>
    losses_15min,            \* Mutex<Vec<(DateTime, f64)>>: Seq of <<time, loss>>
    losses_1hr,
    losses_24hr,
    open_positions,          \* Mutex<HashMap<String, Position>>: key -> pattern_hash
    position_correlations,   \* Mutex<HashMap<(String, String), f64>>: pair -> percent
    owner,                   \* which thread holds each mutex
    poisoned,                \* mutexes whose holder panicked
    now,                     \* Utc::now(), in minutes
    ticks,                   \* number of clock advances so far
    pc,                      \* each thread's position
    call,                    \* each thread's current call and its arguments
    current,                 \* check_risk_limits' local `current` (line 133)
    daily_high_local,        \* check_risk_limits' local `daily_high` (line 134)
    cutoff,                  \* calculate_period_loss' local `cutoff` (line 163)
    ret,                     \* the value the thread's call returned
    stop_at_call,            \* history: emergency_stop as it was when the call began
    closed_reported,         \* keys printed by the last close_all_positions
    effects,                 \* how often each emergency side effect has run
    sleepers,                \* cooldown threads asleep: <<breaker, wake minute>>
    woken,                   \* cooldown threads that ran to their end
    loss_history             \* history: <<time, amount>> of every fall of current_capital

VARIABLES
    active_patterns,         \* DiscoveryEngine: HashMap<String, Pattern>
    pattern_queue,           \* DiscoveryEngine: Vec<Pattern>
    discovered_patterns,     \* table discovered_patterns: pattern_hash -> row
    test_results,            \* table test_results: pattern_hash -> bag of rows
    db_up,                   \* the database executes statements (else they fail)
    dpc,                     \* position of the discovery loop
    hypothesis,              \* run_discovery_loop's local `hypothesis` (line 261)
    trade,                   \* test_hypothesis' local `result` (line 133)
    trial,                   \* run_discovery_loop's local `result` (line 267)
    fetched,                 \* what get_test_results returned (line 270)
    stored,                  \* outcome of the last store_test_result query (line 169)
    store_hypothesis_ret,    \* what the last store_hypothesis returned (line 264)
    iterations,              \* iterations of the discovery loop begun so far
    validate_args,           \* arguments of the last validate_pattern
    size_args,               \* arguments of calculate_position_size
    size_ret,                \* what calculate_position_size returned
    generated,               \* what a direct generate_hypothesis returned
    shutdown                 \* a shutdown signal was delivered to the process

flags == <<emergency_stop, circuit_breaker_15min, circuit_breaker_1hr>>
promoted == <<active_patterns, pattern_queue>>
store == <<discovered_patterns, test_results, db_up>>
loop == <<dpc, hypothesis, trade, trial, fetched, stored,
          store_hypothesis_ret, iterations>>
sizing == <<size_args, size_ret>>
generator == <<generated>>
engine == <<promoted, store, loop, validate_args, sizing, generator>>
capital == <<current_capital, daily_high>>
windows == <<losses_15min, losses_1hr, losses_24hr>>
registry == <<open_positions, position_correlations>>
mutexes == <<owner, poisoned>>
clock == <<now, ticks>>
locals == <<call, current, daily_high_local, cutoff, stop_at_call>>
outputs == <<closed_reported, effects>>
timers == <<sleepers, woken>>
risk == <<flags, capital, windows, registry, mutexes, clock, pc, ret, locals,
          outputs, timers, loss_history>>
vars == <<flags, capital, windows, registry, mutexes, clock, pc, ret, locals,
          outputs, timers, loss_history, engine, shutdown>>

NoCall == [op |-> "none", pattern |-> "", size |-> 0, new_capital |-> 0]

\* The kinds of TestResult execute_test_trade produces, profits in quarters
\* of a dollar: a gain of 20% of the $5 stake, a loss of 10% of it.
TestResults == {[profitable |-> TRUE, profit |-> 4],
                [profitable |-> FALSE, profit |-> -2]}

\* test_capital: 5.0 (line 58), in quarters of a dollar.
test_capital == 20

\* Vec::new(): no result of any kind.
NoResults == [r \in TestResults |-> 0]

NoHypothesis == [hash |-> "", entry_conditions |-> 0, exit_conditions |-> 0,
                 timeframe |-> 0]

NoTrial == [profitable |-> FALSE, profit |-> 0]

NoPattern == [win_rate |-> 0, avg_win_amount |-> 0, avg_loss_amount |-> 0]

\* DiscoveryEngine::new(db_pool); the loop has not started.
NewDiscoveryEngine ==
    /\ active_patterns = <<>>
    /\ pattern_queue = <<>>
    /\ dpc = "drl_261"
    /\ hypothesis = NoHypothesis
    /\ trade = NoTrial
    /\ trial = NoTrial
    /\ fetched = [some |-> FALSE, results |-> NoResults]
    /\ stored = "none"
    /\ store_hypothesis_ret = "none"
    /\ iterations = 0
    /\ validate_args = [h |-> NoHypothesis, results |-> NoResults]
    /\ size_args = [pattern |-> NoPattern, available_capital |-> 0]
    /\ size_ret = [called |-> FALSE, num |-> 0, den |-> 1]
    /\ generated = [called |-> FALSE, h |-> NoHypothesis]

\* The database the pool connects to (src/main.rs, lines 23-28) is up and
\* its tables are empty.
EmptyStore ==
    /\ discovered_patterns = <<>>
    /\ test_results = <<>>
    /\ db_up = TRUE

\* RiskManager::new(starting_capital)
NewRiskManager ==
    /\ emergency_stop = FALSE
    /\ circuit_breaker_15min = FALSE
    /\ circuit_breaker_1hr = FALSE
    /\ current_capital \in StartingCapitals
    /\ daily_high = current_capital
    /\ losses_15min = <<>>
    /\ losses_1hr = <<>>
    /\ losses_24hr = <<>>
    /\ open_positions = <<>>
    /\ position_correlations = <<>>
    /\ owner = [l \in Locks |-> NoThread]
    /\ poisoned = {}
    /\ now = 0
    /\ ticks = 0
    /\ pc = [t \in Threads |-> "idle"]
    /\ call = [t \in Threads |-> NoCall]
    /\ current = [t \in Threads |-> 0]
    /\ daily_high_local = [t \in Threads |-> 0]
    /\ cutoff = [t \in Threads |-> 0]
    /\ ret = [t \in Threads |-> "none"]
    /\ stop_at_call = [t \in Threads |-> FALSE]
    /\ closed_reported = {}
    /\ effects = [closed |-> 0, saved |-> 0, alerted |-> 0]
    /\ sleepers = {}
    /\ woken = {}
    /\ loss_history = <<>>

\* src/main.rs, lines 35 and 41: the risk manager and the discovery engine
\* are constructed.
\* The process has just started (src/main.rs, line 11): no signal reached it.
NoSignal == shutdown = FALSE

Init ==
    /\ NewRiskManager
    /\ NewDiscoveryEngine
    /\ EmptyStore
    /\ NoSignal

\* ---------------------------------------------------------------- helpers
Held(t) == {l \in Locks : owner[l] = t}

BoolStr(b) == IF b THEN "true" ELSE "false"

RECURSIVE SumLosses(_)
SumLosses(s) == IF s = <<>> THEN 0 ELSE Head(s)[2] + SumLosses(Tail(s))

\* losses.iter().filter(|(time, _)| *time > cutoff)   /   retain(...)
Retain(s, cut) == SelectSeq(s, LAMBDA e : e[1] > cut)

\* Mutant of DrawdownExceeds: the limit itself already counts as exceeded.
DrawdownReaches(high, cur) ==
    IF high > 0 THEN (high - cur) * 100 >= max_daily_drawdown_pct * high
    ELSE IF high = 0 THEN cur < 0
    ELSE (high - cur) * 100 <= max_daily_drawdown_pct * high

\* (daily_high - current) / daily_high > max_daily_drawdown_pct, in f64
DrawdownExceeds(high, cur) ==
    IF high > 0 THEN (high - cur) * 100 > max_daily_drawdown_pct * high
    ELSE IF high = 0 THEN cur < 0                \* x/0: +inf, NaN or -inf
    ELSE (high - cur) * 100 < max_daily_drawdown_pct * high

\* period_losses / current > limit, in f64
LossRatioExceeds(sum, cur, limit_pct) ==
    IF cur > 0 THEN sum * 100 > limit_pct * cur
    ELSE IF cur = 0 THEN sum > 0
    ELSE sum * 100 < limit_pct * cur

\* A thread panics: its guards are dropped during unwinding, which poisons
\* the mutexes it held.
PanicOwner(t) == [l \in Locks |-> IF owner[l] = t THEN NoThread ELSE owner[l]]

\* -------------------------------------------------------------- the clock
Tick ==
    /\ ticks < MaxTicks
    /\ ticks' = ticks + 1
    /\ now' = now + TickMinutes
    /\ UNCHANGED <<flags, capital, windows, registry, mutexes, pc, ret, locals,
                   outputs, timers,
                   loss_history, engine, shutdown>>

\* ---------------------------------------------------------- update_capital
CallUpdateCapital(t, n) ==
    /\ pc[t] = "idle"
    /\ pc' = [pc EXCEPT ![t] = "uc_282"]
    /\ call' = [call EXCEPT ![t] = [NoCall EXCEPT !.op = "update_capital",
                                                  !.new_capital = n]]
    /\ stop_at_call' = [stop_at_call EXCEPT ![t] = emergency_stop]
    /\ ret' = [ret EXCEPT ![t] = "none"]
    /\ UNCHANGED <<flags, capital, windows, registry, mutexes, clock, current,
                   daily_high_local, cutoff, outputs, timers,
                   loss_history, engine, shutdown>>

\* line 282: let mut current = self.current_capital.lock().unwrap();
uc_282(t) ==
    /\ pc[t] = "uc_282"
    /\ owner["current_capital"] = NoThread
    /\ IF "current_capital" \in poisoned
       THEN /\ pc' = [pc EXCEPT ![t] = "panicked"]
            /\ UNCHANGED owner
       ELSE /\ pc' = [pc EXCEPT ![t] = "uc_283"]
            /\ owner' = [owner EXCEPT !["current_capital"] = t]
    /\ UNCHANGED <<flags, capital, windows, registry, poisoned, clock, ret,
                   locals, outputs, timers,
                   loss_history, engine, shutdown>>

\* line 283: let mut daily_high = self.daily_high.lock().unwrap();
\* taken while the guard of current_capital is alive.
uc_283(t) ==
    /\ pc[t] = "uc_283"
    /\ owner["daily_high"] = NoThread
    /\ IF "daily_high" \in poisoned
       THEN /\ pc' = [pc EXCEPT ![t] = "panicked"]
            /\ owner' = PanicOwner(t)
            /\ poisoned' = poisoned \cup Held(t)
       ELSE /\ pc' = [pc EXCEPT ![t] = "uc_285"]
            /\ owner' = [owner EXCEPT !["daily_high"] = t]
            /\ UNCHANGED poisoned
    /\ UNCHANGED <<flags, capital, windows, registry, clock, ret, locals,
                   outputs, timers,
                   loss_history, engine, shutdown>>

\* clean_old_losses (lines 306-320), applied to one window
clean_old_losses(s, t_now, minutes) == Retain(s, t_now - minutes)

\* Mutant of uc_285: a capital back within the drawdown limit re-arms trading.
uc_285_rearm(t) ==
    /\ pc[t] = "uc_285"
    /\ current_capital' = call[t].new_capital
    /\ daily_high' = IF call[t].new_capital > daily_high
                     THEN call[t].new_capital ELSE daily_high
    /\ emergency_stop' = (emergency_stop
                          /\ DrawdownExceeds(daily_high', current_capital'))
    /\ owner' = PanicOwner(t)
    /\ pc' = [pc EXCEPT ![t] = "ret"]
    /\ ret' = [ret EXCEPT ![t] = "unit"]
    /\ UNCHANGED <<circuit_breaker_15min, circuit_breaker_1hr, windows,
                   registry, poisoned, clock, locals, outputs, timers,
                   engine, shutdown>>

\* Mutant of uc_285: daily_high follows the capital down as well as up.
uc_285_follow(t) ==
    /\ pc[t] = "uc_285"
    /\ current_capital' = call[t].new_capital
    /\ daily_high' = call[t].new_capital
    /\ owner' = PanicOwner(t)
    /\ pc' = [pc EXCEPT ![t] = "ret"]
    /\ ret' = [ret EXCEPT ![t] = "unit"]
    /\ UNCHANGED <<flags, windows, registry, poisoned, clock, locals, outputs,
                   timers,
                   engine, shutdown>>

\* lines 285-304, run with both guards held.  `*current` is read on line 293
\* after it was overwritten on line 285, so the comparison is between
\* new_capital and itself; the loss is computed from the same overwritten
\* value.  The pushes lock the three windows (lines 297-299) and
\* clean_old_losses locks them again, keeping each guard to the end of the
\* function.  Both guards of update_capital are dropped at line 304.
uc_285(t) ==
    /\ pc[t] = "uc_285"
    /\ LET new_capital == call[t].new_capital
           current_285 == new_capital
           loss == current_285 - new_capital
       IN  /\ current_capital' = current_285
           /\ daily_high' = IF new_capital > daily_high THEN new_capital
                            ELSE daily_high
           /\ IF new_capital < current_285
              THEN /\ \A l \in {"losses_15min", "losses_1hr", "losses_24hr"} :
                          owner[l] = NoThread /\ l \notin poisoned
                   /\ losses_15min' = clean_old_losses(
                          Append(losses_15min, <<now, loss>>), now, 15)
                   /\ losses_1hr' = clean_old_losses(
                          Append(losses_1hr, <<now, loss>>), now, 60)
                   /\ losses_24hr' = clean_old_losses(
                          Append(losses_24hr, <<now, loss>>), now, 1440)
              ELSE UNCHANGED windows
    /\ owner' = PanicOwner(t)
    /\ pc' = [pc EXCEPT ![t] = "ret"]
    /\ ret' = [ret EXCEPT ![t] = "unit"]
    /\ UNCHANGED <<flags, registry, poisoned, clock, locals, outputs, timers,
                   engine, shutdown>>

\* The caller takes the returned value; the thread is free for its next call.
Return(t) ==
    /\ pc[t] = "ret"
    /\ pc' = [pc EXCEPT ![t] = "idle"]
    /\ call' = [call EXCEPT ![t] = NoCall]
    /\ ret' = [ret EXCEPT ![t] = "none"]
    /\ stop_at_call' = [stop_at_call EXCEPT ![t] = FALSE]
    /\ current' = [current EXCEPT ![t] = 0]
    /\ daily_high_local' = [daily_high_local EXCEPT ![t] = 0]
    /\ cutoff' = [cutoff EXCEPT ![t] = 0]
    /\ UNCHANGED <<flags, capital, windows, registry, mutexes, clock, outputs,
                   timers,
                   loss_history, engine, shutdown>>


\* -------------------------------------------------------- check_risk_limits
CallCheckRiskLimits(t) ==
    /\ pc[t] = "idle"
    /\ pc' = [pc EXCEPT ![t] = "crl_116"]
    /\ call' = [call EXCEPT ![t] = [NoCall EXCEPT !.op = "check_risk_limits"]]
    /\ stop_at_call' = [stop_at_call EXCEPT ![t] = emergency_stop]
    /\ ret' = [ret EXCEPT ![t] = "none"]
    /\ UNCHANGED <<flags, capital, windows, registry, mutexes, clock, current,
                   daily_high_local, cutoff, outputs, timers,
                   loss_history, engine, shutdown>>

\* check_risk_limits returns v: to its caller, or into approve_order at line
\* 226, which returns false at once when v is false and goes on to line 231
\* otherwise.
CrlPc(t, v) == IF call[t].op = "approve_order" /\ v THEN "ao_231" ELSE "ret"
CrlRet(t, v) == IF call[t].op = "approve_order" /\ v THEN ret[t] ELSE BoolStr(v)

\* Mutant of crl_116: the emergency flag is not looked at.
crl_116_unchecked(t) ==
    /\ pc[t] = "crl_116"
    /\ pc' = [pc EXCEPT ![t] = "crl_122"]
    /\ UNCHANGED <<flags, capital, windows, registry, mutexes, clock, ret,
                   locals, outputs, timers, loss_history, engine, shutdown>>

\* line 116: if self.emergency_stop.load(SeqCst) { return false; }
crl_116(t) ==
    /\ pc[t] = "crl_116"
    /\ IF emergency_stop
       THEN /\ pc' = [pc EXCEPT ![t] = CrlPc(t, FALSE)]
            /\ ret' = [ret EXCEPT ![t] = CrlRet(t, FALSE)]
       ELSE /\ pc' = [pc EXCEPT ![t] = "crl_122"]
            /\ UNCHANGED ret
    /\ UNCHANGED <<flags, capital, windows, registry, mutexes, clock, locals,
                   outputs, timers,
                   loss_history, engine, shutdown>>

\* Mutant of crl_122: a tripped 15-minute breaker does not end the call.
crl_122_unchecked(t) ==
    /\ pc[t] = "crl_122"
    /\ pc' = [pc EXCEPT ![t] = "crl_127"]
    /\ UNCHANGED <<flags, capital, windows, registry, mutexes, clock, ret,
                   locals, outputs, timers, loss_history, engine, shutdown>>

\* line 122: if self.circuit_breaker_15min.load(SeqCst) { return false; }
crl_122(t) ==
    /\ pc[t] = "crl_122"
    /\ IF circuit_breaker_15min
       THEN /\ pc' = [pc EXCEPT ![t] = CrlPc(t, FALSE)]
            /\ ret' = [ret EXCEPT ![t] = CrlRet(t, FALSE)]
       ELSE /\ pc' = [pc EXCEPT ![t] = "crl_127"]
            /\ UNCHANGED ret
    /\ UNCHANGED <<flags, capital, windows, registry, mutexes, clock, locals,
                   outputs, timers,
                   loss_history, engine, shutdown>>

\* line 127: if self.circuit_breaker_1hr.load(SeqCst) { return false; }
crl_127(t) ==
    /\ pc[t] = "crl_127"
    /\ IF circuit_breaker_1hr
       THEN /\ pc' = [pc EXCEPT ![t] = CrlPc(t, FALSE)]
            /\ ret' = [ret EXCEPT ![t] = CrlRet(t, FALSE)]
       ELSE /\ pc' = [pc EXCEPT ![t] = "crl_133"]
            /\ UNCHANGED ret
    /\ UNCHANGED <<flags, capital, windows, registry, mutexes, clock, locals,
                   outputs, timers,
                   loss_history, engine, shutdown>>

\* line 133: let current = *self.current_capital.lock().unwrap();
\* the guard is a temporary, dropped at the end of the statement.
crl_133(t) ==
    /\ pc[t] = "crl_133"
    /\ owner["current_capital"] = NoThread
    /\ IF "current_capital" \in poisoned
       THEN /\ pc' = [pc EXCEPT ![t] = "panicked"]
            /\ UNCHANGED current
       ELSE /\ pc' = [pc EXCEPT ![t] = "crl_134"]
            /\ current' = [current EXCEPT ![t] = current_capital]
    /\ UNCHANGED <<flags, capital, windows, registry, mutexes, clock, ret, call,
                   daily_high_local, cutoff, stop_at_call, outputs, timers,
                   loss_history, engine, shutdown>>

\* lines 134-142: let daily_high = *self.daily_high.lock().unwrap(); then the
\* drawdown of the two values read, and the branch on it.
crl_134(t) ==
    /\ pc[t] = "crl_134"
    /\ owner["daily_high"] = NoThread
    /\ IF "daily_high" \in poisoned
       THEN /\ pc' = [pc EXCEPT ![t] = "panicked"]
            /\ UNCHANGED daily_high_local
       ELSE /\ daily_high_local' = [daily_high_local EXCEPT ![t] = daily_high]
            /\ IF DrawdownExceeds(daily_high, current[t])
               THEN pc' = [pc EXCEPT ![t] = "tes_185"]
               ELSE pc' = [pc EXCEPT ![t] = "cpl_166"]
    /\ UNCHANGED <<flags, capital, windows, registry, mutexes, clock, ret, call,
                   current, cutoff, stop_at_call, outputs, timers,
                   loss_history, engine, shutdown>>

\* ------------------------------------------------- trigger_emergency_stop
\* line 185: self.emergency_stop.store(true, SeqCst);
tes_185(t) ==
    /\ pc[t] = "tes_185"
    /\ emergency_stop' = TRUE
    /\ pc' = [pc EXCEPT ![t] = "cap_324"]
    /\ UNCHANGED <<circuit_breaker_15min, circuit_breaker_1hr, capital, windows,
                   registry, mutexes, clock, ret, locals, outputs, timers,
                   loss_history, engine, shutdown>>

\* Mutant of cap_324: close_all_positions removes the positions it reports.
cap_324_closing(t) ==
    /\ pc[t] = "cap_324"
    /\ owner["open_positions"] = NoThread
    /\ IF "open_positions" \in poisoned
       THEN /\ pc' = [pc EXCEPT ![t] = "panicked"]
            /\ UNCHANGED <<outputs, registry>>
       ELSE /\ pc' = [pc EXCEPT ![t] = "tes_191"]
            /\ closed_reported' = DOMAIN open_positions
            /\ effects' = [effects EXCEPT !.closed = @ + 1]
            /\ open_positions' = <<>>
            /\ UNCHANGED position_correlations
    /\ UNCHANGED <<flags, capital, windows, mutexes, clock, ret,
                   locals, timers,
                   loss_history, engine, shutdown>>

\* close_all_positions, lines 322-331: the registry is locked, every entry is
\* printed as being closed, nothing is removed.
cap_324(t) ==
    /\ pc[t] = "cap_324"
    /\ owner["open_positions"] = NoThread
    /\ IF "open_positions" \in poisoned
       THEN /\ pc' = [pc EXCEPT ![t] = "panicked"]
            /\ UNCHANGED outputs
       ELSE /\ pc' = [pc EXCEPT ![t] = "tes_191"]
            /\ closed_reported' = DOMAIN open_positions
            /\ effects' = [effects EXCEPT !.closed = @ + 1]
    /\ UNCHANGED <<flags, capital, windows, registry, mutexes, clock, ret,
                   locals, timers,
                   loss_history, engine, shutdown>>

\* lines 191-195: save_emergency_state(); send_emergency_alerts(); then
\* check_risk_limits returns false (line 141).
tes_191(t) ==
    /\ pc[t] = "tes_191"
    /\ effects' = [effects EXCEPT !.saved = @ + 1, !.alerted = @ + 1]
    /\ pc' = [pc EXCEPT ![t] = CrlPc(t, FALSE)]
    /\ ret' = [ret EXCEPT ![t] = CrlRet(t, FALSE)]
    /\ UNCHANGED <<flags, capital, windows, registry, mutexes, clock, locals,
                   closed_reported, timers,
                   loss_history, engine, shutdown>>

\* ------------------------------------------------- the circuit breakers
\* trigger_circuit_breaker_15min, lines 197-206: the flag is stored and a
\* thread is spawned that sleeps for the cooldown.
trigger_circuit_breaker_15min ==
    /\ circuit_breaker_15min' = TRUE
    /\ sleepers' = sleepers \cup {<<"15min", now + (cooldown_15min_secs \div 60)>>}
    /\ UNCHANGED <<emergency_stop, circuit_breaker_1hr, woken>>

\* trigger_circuit_breaker_1hr, lines 208-217
trigger_circuit_breaker_1hr ==
    /\ circuit_breaker_1hr' = TRUE
    /\ sleepers' = sleepers \cup {<<"1hr", now + (cooldown_1hr_secs \div 60)>>}
    /\ UNCHANGED <<emergency_stop, circuit_breaker_15min, woken>>

\* The body of a spawned cooldown thread, lines 202-205 and 213-216: the
\* sleep ends, and the closure ends with it.
CooldownElapsed(s) ==
    /\ s \in sleepers
    /\ now >= s[2]
    /\ sleepers' = sleepers \ {s}
    /\ woken' = woken \cup {s[1]}
    /\ UNCHANGED <<flags, capital, windows, registry, mutexes, clock, pc, ret,
                   locals, outputs, loss_history, engine, shutdown>>

\* ----------------------------------------------------- calculate_period_loss
\* lines 171-175: the sum of the window's entries younger than the cutoff
period_losses(losses, cut) == SumLosses(Retain(losses, cut))

\* lines 162-166 (period 15 minutes): now and the cutoff are taken, then
\* let losses = self.losses_15min.lock().unwrap();
\* the guard lives to the end of calculate_period_loss.
cpl_166(t) ==
    /\ pc[t] = "cpl_166"
    /\ owner["losses_15min"] = NoThread
    /\ cutoff' = [cutoff EXCEPT ![t] = now - 15]
    /\ IF "losses_15min" \in poisoned
       THEN /\ pc' = [pc EXCEPT ![t] = "panicked"]
            /\ UNCHANGED owner
       ELSE /\ pc' = [pc EXCEPT ![t] = "cpl15_177"]
            /\ owner' = [owner EXCEPT !["losses_15min"] = t]
    /\ UNCHANGED <<flags, capital, windows, registry, poisoned, clock, ret,
                   call, current, daily_high_local, stop_at_call, outputs,
                   timers,
                   loss_history, engine, shutdown>>

\* line 177 (period 15 minutes): current_capital is locked while the guard of
\* losses_15min is alive; lines 178 and 146-149: the ratio and the branch.
cpl15_177(t) ==
    /\ pc[t] = "cpl15_177"
    /\ owner["current_capital"] = NoThread
    /\ owner' = PanicOwner(t)
    /\ IF "current_capital" \in poisoned
       THEN /\ pc' = [pc EXCEPT ![t] = "panicked"]
            /\ poisoned' = poisoned \cup Held(t)
            /\ UNCHANGED <<flags, ret, timers>>
       ELSE /\ UNCHANGED poisoned
            /\ IF LossRatioExceeds(
                      period_losses(losses_15min, cutoff[t]),
                      current_capital, loss_limit_15min_pct)
               THEN /\ trigger_circuit_breaker_15min
                    /\ pc' = [pc EXCEPT ![t] = CrlPc(t, FALSE)]
                    /\ ret' = [ret EXCEPT ![t] = CrlRet(t, FALSE)]
               ELSE /\ pc' = [pc EXCEPT ![t] = "cpl_167"]
                    /\ UNCHANGED <<flags, ret, timers>>
    /\ UNCHANGED <<capital, windows, registry, clock, locals, outputs,
                   loss_history, engine, shutdown>>

\* lines 162-167 (period 1 hour): now and the cutoff are taken, then
\* let losses = self.losses_1hr.lock().unwrap();
cpl_167(t) ==
    /\ pc[t] = "cpl_167"
    /\ owner["losses_1hr"] = NoThread
    /\ cutoff' = [cutoff EXCEPT ![t] = now - 60]
    /\ IF "losses_1hr" \in poisoned
       THEN /\ pc' = [pc EXCEPT ![t] = "panicked"]
            /\ UNCHANGED owner
       ELSE /\ pc' = [pc EXCEPT ![t] = "cpl1h_177"]
            /\ owner' = [owner EXCEPT !["losses_1hr"] = t]
    /\ UNCHANGED <<flags, capital, windows, registry, poisoned, clock, ret,
                   call, current, daily_high_local, stop_at_call, outputs,
                   timers,
                   loss_history, engine, shutdown>>

\* line 177 (period 1 hour), then lines 178 and 153-158
cpl1h_177(t) ==
    /\ pc[t] = "cpl1h_177"
    /\ owner["current_capital"] = NoThread
    /\ owner' = PanicOwner(t)
    /\ IF "current_capital" \in poisoned
       THEN /\ pc' = [pc EXCEPT ![t] = "panicked"]
            /\ poisoned' = poisoned \cup Held(t)
            /\ UNCHANGED <<flags, ret, timers>>
       ELSE /\ UNCHANGED poisoned
            /\ IF LossRatioExceeds(
                      period_losses(losses_1hr, cutoff[t]),
                      current_capital, loss_limit_1hr_pct)
               THEN /\ trigger_circuit_breaker_1hr
                    /\ pc' = [pc EXCEPT ![t] = CrlPc(t, FALSE)]
                    /\ ret' = [ret EXCEPT ![t] = CrlRet(t, FALSE)]
               ELSE /\ pc' = [pc EXCEPT ![t] = CrlPc(t, TRUE)]
                    /\ ret' = [ret EXCEPT ![t] = CrlRet(t, TRUE)]
                    /\ UNCHANGED <<flags, timers>>
    /\ UNCHANGED <<capital, windows, registry, clock, locals, outputs,
                   loss_history, engine, shutdown>>

\* ------------------------------------------- calculate_portfolio_correlation
Abs(x) == IF x < 0 THEN -x ELSE x

Max(S) == CHOOSE x \in S : \A y \in S : y <= x

\* lines 273-274: correlations.get(&(existing, new)).or_else(|| get(&(new, existing)))
LookupCorrelation(correlations, existing, new_pattern) ==
    IF <<existing, new_pattern>> \in DOMAIN correlations
    THEN {correlations[<<existing, new_pattern>>]}
    ELSE IF <<new_pattern, existing>> \in DOMAIN correlations
         THEN {correlations[<<new_pattern, existing>>]}
         ELSE {}

\* lines 263-278, in percent: 0 for an empty registry, otherwise the largest
\* |correlation| recorded between a registry key and the new pattern,
\* folded from 0.
calculate_portfolio_correlation(positions, correlations, new_pattern) ==
    IF DOMAIN positions = {} THEN 0
    ELSE Max({0} \cup {Abs(c) : c \in UNION {
             LookupCorrelation(correlations, existing, new_pattern) :
                 existing \in DOMAIN positions}})

\* ------------------------------------------------------------ approve_order
CallApproveOrder(t, p, sz) ==
    /\ pc[t] = "idle"
    /\ pc' = [pc EXCEPT ![t] = "ao_221"]
    /\ call' = [call EXCEPT ![t] = [NoCall EXCEPT !.op = "approve_order",
                                                  !.pattern = p, !.size = sz]]
    /\ stop_at_call' = [stop_at_call EXCEPT ![t] = emergency_stop]
    /\ ret' = [ret EXCEPT ![t] = "none"]
    /\ UNCHANGED <<flags, capital, windows, registry, mutexes, clock, current,
                   daily_high_local, cutoff, outputs, timers,
                   loss_history, engine, shutdown>>

\* line 221: if self.emergency_stop.load(SeqCst) { return false; }
\* otherwise line 226 calls check_risk_limits.
ao_221(t) ==
    /\ pc[t] = "ao_221"
    /\ IF emergency_stop
       THEN /\ pc' = [pc EXCEPT ![t] = "ret"]
            /\ ret' = [ret EXCEPT ![t] = "false"]
       ELSE /\ pc' = [pc EXCEPT ![t] = "crl_116"]
            /\ UNCHANGED ret
    /\ UNCHANGED <<flags, capital, windows, registry, mutexes, clock, locals,
                   outputs, timers,
                   loss_history, engine, shutdown>>

\* Mutant of pattern_positions: every open position counts, whatever its
\* pattern.
all_positions(positions, pattern_hash) ==
    Cardinality(DOMAIN positions)

\* lines 232-235: positions.values().filter(|p| p.pattern_hash == pattern_hash).count()
pattern_positions(positions, pattern_hash) ==
    Cardinality({k \in DOMAIN positions : positions[k] = pattern_hash})

\* lines 231-240: let positions = self.open_positions.lock().unwrap(); the
\* guard lives to the end of approve_order.  Too many positions of the
\* pattern: return false.
ao_231(t) ==
    /\ pc[t] = "ao_231"
    /\ owner["open_positions"] = NoThread
    /\ IF "open_positions" \in poisoned
       THEN /\ pc' = [pc EXCEPT ![t] = "panicked"]
            /\ UNCHANGED <<owner, ret>>
       ELSE IF pattern_positions(open_positions, call[t].pattern)
                   >= max_concurrent_positions
            THEN /\ pc' = [pc EXCEPT ![t] = "ret"]
                 /\ ret' = [ret EXCEPT ![t] = "false"]
                 /\ UNCHANGED owner
            ELSE /\ pc' = [pc EXCEPT ![t] = "cpc_262"]
                 /\ owner' = [owner EXCEPT !["open_positions"] = t]
                 /\ UNCHANGED ret
    /\ UNCHANGED <<flags, capital, windows, registry, poisoned, clock, locals,
                   outputs, timers,
                   loss_history, engine, shutdown>>

\* lines 243-255, what approve_order returns once the registry guard is held:
\* the correlation gate, then the ceiling of half the current capital.
approve_order_243(positions, correlations, cur, pattern_hash, size) ==
    IF calculate_portfolio_correlation(positions, correlations, pattern_hash)
           > max_correlation_pct
    THEN FALSE
    ELSE IF size * 100 > cur * max_order_capital_pct THEN FALSE
    ELSE TRUE

\* line 243 calls calculate_portfolio_correlation, whose line 262 locks
\* open_positions: let positions = self.open_positions.lock().unwrap();
\* std::sync::Mutex is not reentrant: locking it on the thread that holds it
\* does not return, it blocks forever or panics (the guard of line 231 is
\* then dropped by the unwinding and the mutex is poisoned).  For a thread
\* that does not hold it, lines 262-278 and 249-255 follow.
cpc_262(t) ==
    /\ pc[t] = "cpc_262"
    /\ IF owner["open_positions"] = t
       THEN /\ \/ /\ pc' = [pc EXCEPT ![t] = "deadlocked"]
                  /\ UNCHANGED mutexes
               \/ /\ pc' = [pc EXCEPT ![t] = "panicked"]
                  /\ owner' = PanicOwner(t)
                  /\ poisoned' = poisoned \cup Held(t)
            /\ UNCHANGED ret
       ELSE /\ \A l \in {"open_positions", "position_correlations",
                         "current_capital"} :
                   owner[l] = NoThread /\ l \notin poisoned
            /\ pc' = [pc EXCEPT ![t] = "ret"]
            /\ ret' = [ret EXCEPT ![t] = BoolStr(approve_order_243(
                   open_positions, position_correlations, current_capital,
                   call[t].pattern, call[t].size))]
            /\ UNCHANGED mutexes
    /\ UNCHANGED <<flags, capital, windows, registry, clock, locals, outputs,
                   timers,
                   loss_history, engine, shutdown>>

\* ------------------------------------------------- the registry's writers
\* A confirmed order enters the open-position registry under its key.
OpenPosition(k, p) ==
    /\ k \notin DOMAIN open_positions
    /\ owner["open_positions"] = NoThread
    /\ "open_positions" \notin poisoned
    /\ open_positions' = open_positions @@ (k :> p)
    /\ UNCHANGED <<flags, capital, windows, position_correlations, mutexes,
                   clock, pc, ret, locals, outputs, timers,
                   loss_history, engine, shutdown>>

\* The pairwise correlation map is maintained: a pair's value is recorded.
RecordCorrelation(a, b, c) ==
    /\ <<a, b>> \notin DOMAIN position_correlations
    /\ owner["position_correlations"] = NoThread
    /\ "position_correlations" \notin poisoned
    /\ position_correlations' = position_correlations @@ (<<a, b>> :> c)
    /\ UNCHANGED <<flags, capital, windows, open_positions, mutexes, clock, pc,
                   ret, locals, outputs, timers,
                   loss_history, engine, shutdown>>

\* ------------------------------------------------------ position sizing
\* Exact fractions num/den with den > 0.
RECURSIVE GCD(_, _)
GCD(a, b) == IF b = 0 THEN a ELSE GCD(b, a % b)

Frac(n, d) ==
    LET g == GCD(Abs(n), Abs(d))
        sg == IF d < 0 THEN -1 ELSE 1
    IN  [num |-> sg * (n \div g), den |-> sg * (d \div g)]

FracLess(x, y) == x.num * y.den < y.num * x.den

\* f64::min
FracMin(x, y) == IF FracLess(y, x) THEN y ELSE x

FracZero == [num |-> 0, den |-> 1]

\* Mutant of calculate_position_size: the $5 minimum of lines 107-109 is not
\* applied.
calculate_position_size_dust(pattern, available_capital) ==
    IF pattern.win_rate < min_win_rate_pct THEN FracZero
    ELSE IF pattern.avg_loss_amount = 0 \/ pattern.avg_win_amount = 0
    THEN FracZero
    ELSE LET avg_win == pattern.avg_win_amount
             avg_loss == Abs(pattern.avg_loss_amount)
             kelly_pct == Frac(pattern.win_rate * avg_win
                                   - (100 - pattern.win_rate) * avg_loss,
                               100 * avg_win)
             safe_kelly == Frac(kelly_pct.num * kelly_fraction_pct,
                                kelly_pct.den * 100)
             max_position == Frac(available_capital * max_position_size_pct,
                                  100)
             kelly_position ==
                 IF safe_kelly.num > 0
                 THEN Frac(available_capital * safe_kelly.num, safe_kelly.den)
                 ELSE FracZero
         IN  FracMin(kelly_position, max_position)

\* Mutant of calculate_position_size: a pattern whose average win or loss
\* is unknown (zero) is sized at the cap of 25% of the capital.
calculate_position_size_unknown(pattern, available_capital) ==
    IF pattern.win_rate < min_win_rate_pct THEN FracZero
    ELSE IF pattern.avg_loss_amount = 0 \/ pattern.avg_win_amount = 0
    THEN LET max_position == Frac(available_capital * max_position_size_pct,
                                  100)
         IN  IF FracLess(max_position, Frac(min_position_size, 1))
             THEN FracZero
             ELSE max_position
    ELSE LET avg_win == pattern.avg_win_amount
             avg_loss == Abs(pattern.avg_loss_amount)
             kelly_pct == Frac(pattern.win_rate * avg_win
                                   - (100 - pattern.win_rate) * avg_loss,
                               100 * avg_win)
             safe_kelly == Frac(kelly_pct.num * kelly_fraction_pct,
                                kelly_pct.den * 100)
             max_position == Frac(available_capital * max_position_size_pct,
                                  100)
             kelly_position ==
                 IF safe_kelly.num > 0
                 THEN Frac(available_capital * safe_kelly.num, safe_kelly.den)
                 ELSE FracZero
             position_size == FracMin(kelly_position, max_position)
         IN  IF FracLess(position_size, Frac(min_position_size, 1))
             THEN FracZero
             ELSE position_size

\* lines 72-112.  win_rate is in percent, amounts are whole dollars.
\* b = avg_win / avg_loss and kelly_pct = (win_prob * b - loss_prob) / b,
\* which is (win_rate * avg_win - (1 - win_rate) * avg_loss) / avg_win.
calculate_position_size(pattern, available_capital) ==
    IF pattern.win_rate < min_win_rate_pct THEN FracZero
    ELSE IF Abs(pattern.avg_loss_amount) = 0 \/ pattern.avg_win_amount = 0
    THEN FracZero
    ELSE LET avg_win == pattern.avg_win_amount
             avg_loss == Abs(pattern.avg_loss_amount)
             kelly_pct == Frac(pattern.win_rate * avg_win
                                   - (100 - pattern.win_rate) * avg_loss,
                               100 * avg_win)
             safe_kelly == Frac(kelly_pct.num * kelly_fraction_pct,
                                kelly_pct.den * 100)
             max_position == Frac(available_capital * max_position_size_pct,
                                  100)
             \* available_capital * safe_kelly.max(0.0)
             kelly_position ==
                 IF safe_kelly.num > 0
                 THEN Frac(available_capital * safe_kelly.num, safe_kelly.den)
                 ELSE FracZero
             position_size == FracMin(kelly_position, max_position)
         IN  IF FracLess(position_size, Frac(min_position_size, 1))
             THEN FracZero
             ELSE position_size

\* A caller asks for the size of a position.
CallCalculatePositionSize(pattern, available_capital) ==
    /\ size_args' = [pattern |-> pattern,
                     available_capital |-> available_capital]
    /\ size_ret' = [called |-> TRUE]
                   @@ calculate_position_size(pattern, available_capital)
    /\ UNCHANGED <<flags, capital, windows, registry, mutexes, clock, pc, ret,
                   locals, outputs, timers, loss_history, promoted, store,
                   loop, validate_args, generator, shutdown>>

\* ---------------------------------------------------- pattern validation
RECURSIVE Sum(_, _)
Sum(f, S) ==
    IF S = {} THEN 0
    ELSE LET x == CHOOSE y \in S : TRUE IN f[x] + Sum(f, S \ {x})

\* results.len()
len(results) == Sum(results, TestResults)

\* results.iter().filter(|r| r.profitable).count()
wins_of(results) ==
    Sum([r \in TestResults |-> IF r.profitable THEN results[r] ELSE 0],
        TestResults)

\* results.iter().map(|r| r.profit).sum()
total_profit_of(results) ==
    Sum([r \in TestResults |-> results[r] * r.profit], TestResults)

\* lines 204-224.  With S the sum of the profits, Q the sum of their squares
\* and n the number of results, mean_return / std_dev is
\* S / sqrt(n * Q - S * S); the value is given by its sign and its square,
\* annualization * S * S / (n * Q - S * S).
calculate_sharpe_ratio(results) ==
    LET n == len(results)
        S == total_profit_of(results)
        Q == Sum([r \in TestResults |-> results[r] * r.profit * r.profit],
                 TestResults)
    IN  IF n = 0 THEN [sign |-> 0, square |-> FracZero]
        ELSE IF n * Q - S * S = 0 THEN [sign |-> 0, square |-> FracZero]
        ELSE [sign |-> IF S > 0 THEN 1 ELSE IF S < 0 THEN -1 ELSE 0,
              square |-> Frac(annualization * S * S, n * Q - S * S)]

\* Mutant of WinRateReaches: any win rate passes.
WinRateAny(wins, n) == TRUE

\* win_rate >= self.min_win_rate, with win_rate = wins / results.len()
\* (0 / 0 is NaN, which is not >= 0.55).
WinRateReaches(wins, n) == n > 0 /\ wins * 100 >= min_win_rate_pct * n

\* HashMap::insert
Insert(map, key, value) ==
    [k \in DOMAIN map \cup {key} |-> IF k = key THEN value ELSE map[k]]

\* Mutant of NewPattern: the pattern is recorded as a child of itself, one
\* generation on.
ChildPattern(h, results) ==
    [hash |-> h.hash,
     hypothesis |-> h,
     test_count |-> len(results),
     win_count |-> wins_of(results),
     total_profit |-> total_profit_of(results),
     win_rate |-> [num |-> wins_of(results), den |-> len(results)],
     sharpe_ratio |-> calculate_sharpe_ratio(results),
     is_active |-> TRUE,
     generation |-> 1,
     parent_patterns |-> <<h.hash>>]

\* lines 235-246
NewPattern(h, results) ==
    [hash |-> h.hash,
     hypothesis |-> h,
     test_count |-> len(results),
     win_count |-> wins_of(results),
     total_profit |-> total_profit_of(results),
     win_rate |-> [num |-> wins_of(results), den |-> len(results)],
     sharpe_ratio |-> calculate_sharpe_ratio(results),
     is_active |-> TRUE,
     generation |-> 0,
     parent_patterns |-> <<>>]

\* lines 227-255: what active_patterns and pattern_queue are after
\* validate_pattern(h, results).
validate_pattern(patterns, queue, h, results) ==
    IF len(results) >= min_tests_required
    THEN IF WinRateReaches(wins_of(results), len(results))
         THEN [active_patterns |->
                   Insert(patterns, h.hash, NewPattern(h, results)),
               pattern_queue |-> Append(queue, NewPattern(h, results))]
         ELSE [active_patterns |-> patterns, pattern_queue |-> queue]
    ELSE [active_patterns |-> patterns, pattern_queue |-> queue]

\* A caller validates hypothesis h against a sample of results.
CallValidatePattern(h, results) ==
    /\ validate_args' = [h |-> h, results |-> results]
    /\ LET after == validate_pattern(active_patterns, pattern_queue, h,
                                     results)
       IN  /\ active_patterns' = after.active_patterns
           /\ pattern_queue' = after.pattern_queue
    /\ UNCHANGED <<flags, capital, windows, registry, mutexes, clock, pc, ret,
                   locals, outputs, timers, loss_history, store, loop,
                   sizing,
                   generator, shutdown>>

\* ------------------------------------------------------ the discovery loop
\* The rows of table test_results with pattern_hash = hash, as a bag.
Rows(table, hash) == IF hash \in DOMAIN table THEN table[hash] ELSE NoResults

\* lines 68-99: the hash is 16 hex digits of a SHA-256 over the clock and a
\* random number, the condition vectors have 1 to 5 and 1 to 3 elements and
\* the timeframe is in 1..1439; the conditions are given by their number.
generate_hypothesis(hash, entry_count, exit_count, timeframe) ==
    [hash |-> hash, entry_conditions |-> entry_count,
     exit_conditions |-> exit_count, timeframe |-> timeframe]

\* rng.gen_range(low..=high): any value from low to high, both included.
gen_range_inclusive(low, high) == low .. high

\* Mutant of gen_range: the upper end of the range is included.
gen_range_closed(low, high) == low .. high

\* rng.gen_range(low..high): any value from low up to, not including, high.
gen_range(low, high) == low .. (high - 1)

\* format!("{:x}", hasher.finalize()) (line 74): the 64 hexadecimal digits
\* of a SHA-256, each digit given by its value; two of the digests.
Digests == {[i \in 1 .. 64 |-> d] : d \in {0, 15}}

\* The one direct call of generate_hypothesis (the test of line 348), with
\* the draws of lines 73-96: the hash is the first 16 digits of the digest
\* (`hash[..16]`, line 93).
CallGenerateHypothesis ==
    /\ ~generated.called
    /\ \E digest \in Digests, entry_count \in gen_range_inclusive(1, 5),
          exit_count \in gen_range_inclusive(1, 3),
          timeframe \in gen_range(1, 1440) :
           generated' =
               [called |-> TRUE,
                h |-> generate_hypothesis(SubSeq(digest, 1, 16), entry_count,
                                          exit_count, timeframe)]
    /\ UNCHANGED <<risk, promoted, store, loop, validate_args, sizing,
                   shutdown>>

\* Mutant of store_hypothesis: a stored hash is overwritten (DO UPDATE).
store_hypothesis_upsert(table, h) ==
    Insert(table, h.hash,
           [entry_conditions |-> h.entry_conditions,
            exit_conditions |-> h.exit_conditions,
            timeframe_minutes |-> h.timeframe])

\* lines 284-296, the statement executed: INSERT INTO discovered_patterns ...
\* ON CONFLICT (pattern_hash) DO NOTHING.
store_hypothesis(table, h) ==
    IF h.hash \in DOMAIN table THEN table
    ELSE Insert(table, h.hash,
                [entry_conditions |-> h.entry_conditions,
                 exit_conditions |-> h.exit_conditions,
                 timeframe_minutes |-> h.timeframe])

\* lines 164-177, the statement executed: INSERT INTO test_results ...
store_test_result(table, hash, result) ==
    Insert(table, hash,
           [Rows(table, hash) EXCEPT ![result] = @ + 1])

\* Mutant of get_test_results: the trial just run is counted with the rows
\* read, whether or not it was written.
get_test_results_counting(table, hash, up, result) ==
    IF up
    THEN [some |-> TRUE,
          results |-> [Rows(table, hash) EXCEPT ![result] = @ + 1]]
    ELSE [some |-> TRUE, results |-> [NoResults EXCEPT ![result] = @ + 1]]

\* lines 180-202: SELECT ... FROM test_results WHERE pattern_hash = $1; a
\* failed query is None (`.ok()?`, line 191).  `result` is the loop's trial,
\* which the function does not see.
get_test_results(table, hash, up, result) ==
    IF up THEN [some |-> TRUE, results |-> Rows(table, hash)]
    ELSE [some |-> FALSE, results |-> NoResults]

\* line 261: let hypothesis = self.generate_hypothesis();
drl_261 ==
    /\ dpc = "drl_261"
    /\ \E hash \in Hashes, entry_count \in EntryCounts,
          exit_count \in ExitCounts, timeframe \in Timeframes :
           hypothesis' = generate_hypothesis(hash, entry_count, exit_count,
                                             timeframe)
    /\ iterations' = iterations + 1
    /\ dpc' = "drl_264"
    /\ UNCHANGED <<risk, promoted, store, trade, trial, fetched, stored,
                   store_hypothesis_ret, validate_args, sizing,
                   generator, shutdown>>

\* line 264: let _ = self.store_hypothesis(&hypothesis).await;
\* (lines 283-300: the error of a failed query is returned by `?`.)
drl_264 ==
    /\ dpc = "drl_264"
    /\ IF db_up
       THEN /\ discovered_patterns'
                   = store_hypothesis(discovered_patterns, hypothesis)
            /\ store_hypothesis_ret' = "Ok"
       ELSE /\ UNCHANGED discovered_patterns
            /\ store_hypothesis_ret' = "Err"
    /\ dpc' = "th_133"
    /\ UNCHANGED <<risk, promoted, test_results, db_up, hypothesis, trade,
                   trial, fetched, stored, iterations, validate_args, sizing,
                   generator, shutdown>>

\* lines 133 and 141-161: let result = self.execute_test_trade(..).await;
th_133 ==
    /\ dpc = "th_133"
    /\ trade' \in TestResults
    /\ dpc' = "th_136"
    /\ UNCHANGED <<risk, promoted, store, hypothesis, trial, fetched, stored,
                   store_hypothesis_ret, iterations, validate_args, sizing,
                   generator, shutdown>>

\* lines 136 and 163-178: self.store_test_result(&h.hash, &result).await,
\* whose `let _ =` drops the outcome of the query.
th_136 ==
    /\ dpc = "th_136"
    /\ IF db_up
       THEN /\ test_results'
                   = store_test_result(test_results, hypothesis.hash, trade)
            /\ stored' = "Ok"
       ELSE /\ UNCHANGED test_results
            /\ stored' = "Err"
    /\ dpc' = "th_138"
    /\ UNCHANGED <<risk, promoted, discovered_patterns, db_up, hypothesis,
                   trade, trial, fetched, store_hypothesis_ret, iterations,
                   validate_args, sizing,
                   generator, shutdown>>

\* lines 138 and 267: test_hypothesis returns result to the loop.
th_138 ==
    /\ dpc = "th_138"
    /\ trial' = trade
    /\ dpc' = "drl_270"
    /\ UNCHANGED <<risk, promoted, store, hypothesis, trade, fetched, stored,
                   store_hypothesis_ret, iterations, validate_args, sizing,
                   generator, shutdown>>

\* lines 270-271: if let Some(results) = self.get_test_results(..).await
\* { if results.len() >= self.min_tests_required as usize { ..
drl_270 ==
    /\ dpc = "drl_270"
    /\ fetched' = get_test_results(test_results, hypothesis.hash, db_up,
                                   trial)
    /\ dpc' = IF fetched'.some /\ len(fetched'.results) >= min_tests_required
              THEN "drl_272" ELSE "drl_277"
    /\ UNCHANGED <<risk, promoted, store, hypothesis, trade, trial, stored,
                   store_hypothesis_ret, iterations, validate_args, sizing,
                   generator, shutdown>>

\* line 272: self.validate_pattern(&hypothesis, results);
drl_272 ==
    /\ dpc = "drl_272"
    /\ validate_args' = [h |-> hypothesis, results |-> fetched.results]
    /\ LET after == validate_pattern(active_patterns, pattern_queue,
                                     hypothesis, fetched.results)
       IN  /\ active_patterns' = after.active_patterns
           /\ pattern_queue' = after.pattern_queue
    /\ dpc' = "drl_277"
    /\ UNCHANGED <<risk, store, hypothesis, trade, trial, fetched, stored,
                   store_hypothesis_ret, iterations, sizing,
                   generator, shutdown>>

\* lines 277-280: the loop sleeps 3600 / hypotheses_per_hour seconds; the
\* locals of the iteration are dropped and the loop starts over.
drl_277 ==
    /\ dpc = "drl_277"
    /\ dpc' = "drl_261"
    /\ hypothesis' = NoHypothesis
    /\ trade' = NoTrial
    /\ trial' = NoTrial
    /\ fetched' = [some |-> FALSE, results |-> NoResults]
    /\ stored' = "none"
    /\ store_hypothesis_ret' = "none"
    /\ UNCHANGED <<risk, promoted, store, iterations, validate_args,
                   sizing,
                   generator, shutdown>>

\* The database becomes unreachable, or reachable again.
DbFlip ==
    /\ db_up' = ~db_up
    /\ UNCHANGED <<risk, promoted, discovered_patterns, test_results, loop,
                   validate_args, sizing,
                   generator, shutdown>>

\* ------------------------------------------------------ the specifications
\* The steps of thread t inside a call, by method.  Lines 285-304 of
\* update_capital (uc_285) are joined by each specification with what it
\* records of them.
UpdateSteps(t) ==
    \/ uc_282(t)
    \/ uc_283(t)

CheckSteps(t) ==
    \/ crl_116(t)
    \/ crl_122(t)
    \/ crl_127(t)
    \/ crl_133(t)
    \/ crl_134(t)
    \/ cpl_166(t)
    \/ cpl15_177(t)
    \/ cpl_167(t)
    \/ cpl1h_177(t)

EmergencySteps(t) ==
    \/ tes_185(t)
    \/ cap_324(t)
    \/ tes_191(t)

ApproveSteps(t) ==
    \/ ao_221(t)
    \/ ao_231(t)
    \/ cpc_262(t)

Internal(t) ==
    \/ UpdateSteps(t)
    \/ CheckSteps(t)
    \/ EmergencySteps(t)
    \/ ApproveSteps(t)
    \/ Return(t)

\* The program: the monitoring task (src/main.rs, lines 163-177) calls
\* check_risk_limits over and over while the admission path of the execution
\* collaborator calls approve_order and update_capital, and confirmed orders
\* enter the registry under their pattern's hash.
Next ==
    \/ \E t \in Threads : Internal(t)
    \/ \E t \in Threads : uc_285(t) /\ UNCHANGED loss_history
    \/ CallCheckRiskLimits("monitor")
    \/ \E n \in NewCapitals : CallUpdateCapital("exec", n)
    \/ \E p \in Patterns, sz \in OrderSizes : CallApproveOrder("exec", p, sz)
    \/ \E p \in Patterns : OpenPosition(p, p)
    \/ Tick

Spec == Init /\ [][Next]_vars

\* One client thread that calls update_capital and check_risk_limits in turn
\* while the clock advances; loss_history records what each update_capital did
\* to the capital.  At most MaxLosses falls of the capital are followed.
MaxLosses == 2

ObserveLoss(t) ==
    loss_history' =
        IF call[t].new_capital < current_capital
        THEN Append(loss_history,
                    <<now, current_capital - call[t].new_capital>>)
        ELSE loss_history

NextLosses ==
    \/ UpdateSteps("exec")
    \/ uc_285("exec") /\ ObserveLoss("exec")
    \/ CheckSteps("exec")
    \/ EmergencySteps("exec")
    \/ Return("exec")
    \/ CallCheckRiskLimits("exec")
    \/ \E n \in NewCapitals :
           /\ n >= current_capital \/ Len(loss_history) < MaxLosses
           /\ CallUpdateCapital("exec", n)
    \/ Tick

SpecLosses == Init /\ [][NextLosses]_vars

\* One client thread that calls approve_order and update_capital while
\* orders enter the registry under any key and pairwise correlations are
\* recorded.
NextRegistry ==
    \/ Internal("exec")
    \/ uc_285("exec") /\ UNCHANGED loss_history
    \/ \E n \in NewCapitals : CallUpdateCapital("exec", n)
    \/ \E p \in Patterns, sz \in OrderSizes : CallApproveOrder("exec", p, sz)
    \/ \E k \in Patterns, p \in Patterns : OpenPosition(k, p)
    \/ \E a \in Patterns, b \in Patterns, c \in CorrValues :
           a # b /\ RecordCorrelation(a, b, c)

SpecRegistry == Init /\ [][NextRegistry]_vars

\* The breaker automata on their own: trigger_circuit_breaker_15min and
\* trigger_circuit_breaker_1hr are invoked directly on a breaker that is OK,
\* the cooldown threads they spawn run, the clock advances by the hour for up
\* to MaxHours hours, the monitoring task calls check_risk_limits and the
\* capital may fall to a value of LowCapitals.
MaxHours == 7

Trip15min ==
    /\ ~circuit_breaker_15min
    /\ trigger_circuit_breaker_15min
    /\ UNCHANGED <<capital, windows, registry, mutexes, clock, pc, ret, locals,
                   outputs, loss_history, engine, shutdown>>

Trip1hr ==
    /\ ~circuit_breaker_1hr
    /\ trigger_circuit_breaker_1hr
    /\ UNCHANGED <<capital, windows, registry, mutexes, clock, pc, ret, locals,
                   outputs, loss_history, engine, shutdown>>

TickHour ==
    /\ ticks < MaxHours
    /\ ticks' = ticks + 1
    /\ now' = now + 60
    /\ UNCHANGED <<flags, capital, windows, registry, mutexes, pc, ret, locals,
                   outputs, timers, loss_history, engine, shutdown>>

NextBreakers ==
    \/ Trip15min
    \/ Trip1hr
    \/ \E s \in sleepers : CooldownElapsed(s)
    \/ TickHour
    \/ CallCheckRiskLimits("monitor")
    \/ CheckSteps("monitor")
    \/ EmergencySteps("monitor")
    \/ Return("monitor")
    \/ \E n \in LowCapitals : CallUpdateCapital("exec", n)
    \/ UpdateSteps("exec")
    \/ uc_285("exec") /\ UNCHANGED loss_history
    \/ Return("exec")

SpecBreakers == Init /\ [][NextBreakers]_vars

\* =================================================================== claims
\* The thread takes a step.
\* The open-position registry filling up: confirmed orders enter it under the
\* keys 1, 2, ... up to MaxPositions, each for any pattern, while one client
\* thread calls approve_order.
MaxPositions == 11

NextPositions ==
    \/ ApproveSteps("exec")
    \/ CheckSteps("exec")
    \/ Return("exec")
    \/ \E p \in Patterns, sz \in OrderSizes : CallApproveOrder("exec", p, sz)
    \/ \E p \in Patterns :
           /\ Cardinality(DOMAIN open_positions) < MaxPositions
           /\ OpenPosition(Cardinality(DOMAIN open_positions) + 1, p)

SpecPositions == Init /\ [][NextPositions]_vars

\* validate_pattern on its own: a caller validates either of two hypotheses
\* against samples of 99 to 101 results with 54 to 56 wins, while the queue
\* holds fewer than MaxQueue patterns.
MaxQueue == 3

SampleHypotheses ==
    {[hash |-> x, entry_conditions |-> 1, exit_conditions |-> 1,
      timeframe |-> 1] : x \in Hashes}

Samples ==
    {[r \in TestResults |-> IF r.profitable THEN w ELSE n - w] :
         n \in SampleLens, w \in SampleWins}

NextValidate ==
    \E h \in SampleHypotheses, results \in Samples :
        /\ Len(pattern_queue) < MaxQueue
        /\ CallValidatePattern(h, results)

SpecValidate == Init /\ [][NextValidate]_vars

\* The discovery loop for up to MaxIterations iterations, against a
\* database that may fail at any time.  The store outlives the process: at
\* the start a hash has no rows in test_results or the rows of StoredSamples.
MaxIterations == 2

StoredSamples ==
    {NoResults,
     [r \in TestResults |-> IF r.profitable THEN 54 ELSE 45]}

InitDiscovery ==
    /\ NewRiskManager
    /\ NewDiscoveryEngine
    /\ discovered_patterns = <<>>
    /\ test_results \in [Hashes -> StoredSamples]
    /\ db_up = TRUE
    /\ NoSignal

NextDiscovery ==
    \/ iterations < MaxIterations /\ drl_261
    \/ drl_264
    \/ th_133
    \/ th_136
    \/ th_138
    \/ drl_270
    \/ drl_272
    \/ drl_277
    \/ DbFlip

SpecDiscovery == InitDiscovery /\ [][NextDiscovery]_vars

\* calculate_position_size on its own, over patterns with win rates around
\* the minimum and average amounts of either sign.
SizingPatterns ==
    [win_rate : SizingWinRates, avg_win_amount : SizingAmounts,
     avg_loss_amount : SizingAmounts]

NextSizing ==
    \E pattern \in SizingPatterns, available_capital \in AvailableCapitals :
        CallCalculatePositionSize(pattern, available_capital)

SpecSizing == Init /\ [][NextSizing]_vars

\* generate_hypothesis on its own, over every draw of its generator.
NextGenerate == CallGenerateHypothesis

SpecGenerate == Init /\ [][NextGenerate]_vars

\* The process receives a shutdown signal.  main installs no handler and
\* passes no cancellation token to its tasks (src/main.rs, lines 41-74): no
\* statement of run_discovery_loop or of the monitoring task reads the signal.
Shutdown ==
    /\ ~shutdown
    /\ shutdown' = TRUE
    /\ UNCHANGED <<risk, engine>>

\* The discovery task and the monitoring task of src/main.rs, both scheduled
\* fairly by the runtime, and a shutdown signal that may arrive at any time.
DiscoveryTask ==
    \/ iterations < MaxIterations /\ drl_261
    \/ drl_264
    \/ th_133
    \/ th_136
    \/ th_138
    \/ drl_270
    \/ drl_272
    \/ drl_277

MonitoringTask ==
    \/ CallCheckRiskLimits("monitor")
    \/ CheckSteps("monitor")
    \/ Return("monitor")

NextShutdown ==
    \/ DiscoveryTask
    \/ MonitoringTask
    \/ Shutdown

\* The store holds 99 trials of every hash when the process starts.
InitShutdown ==
    /\ NewRiskManager
    /\ NewDiscoveryEngine
    /\ discovered_patterns = <<>>
    /\ test_results =
           [hash \in Hashes |->
                [r \in TestResults |-> IF r.profitable THEN 54 ELSE 45]]
    /\ db_up = TRUE
    /\ NoSignal

SpecShutdown ==
    /\ InitShutdown
    /\ [][NextShutdown]_vars
    /\ WF_vars(DiscoveryTask)
    /\ WF_vars(MonitoringTask)

\* The monitoring task calls check_risk_limits while the execution
\* collaborator calls update_capital; loss_history records every fall of
\* the capital, of which at most MaxLosses are followed.
NextSnapshot ==
    \/ CallCheckRiskLimits("monitor")
    \/ CheckSteps("monitor")
    \/ EmergencySteps("monitor")
    \/ Return("monitor")
    \/ \E n \in NewCapitals :
           /\ n >= current_capital \/ Len(loss_history) < MaxLosses
           /\ CallUpdateCapital("exec", n)
    \/ UpdateSteps("exec")
    \/ uc_285("exec") /\ ObserveLoss("exec")
    \/ Return("exec")

SpecSnapshot == Init /\ [][NextSnapshot]_vars

\* Mutant of FreshHash: the generator may repeat a hash.
AnyHash(hash) == TRUE

\* lines 72-74: the hash digests the clock's nanoseconds and a random u64,
\* taken here never to repeat: no row of the store carries the new hash.
FreshHash(hash) ==
    hash \notin (DOMAIN discovered_patterns \cup DOMAIN test_results)

\* The discovery loop over hashes that never repeat, started on an empty
\* store, against a database that may fail at any time.  The call of line
\* 272 is not among the steps: the loop never reaches it (C26).
NextFresh ==
    \/ /\ iterations < MaxIterations
       /\ drl_261
       /\ FreshHash(hypothesis'.hash)
    \/ drl_264
    \/ th_133
    \/ th_136
    \/ th_138
    \/ drl_270
    \/ drl_277
    \/ DbFlip

SpecFresh == Init /\ [][NextFresh]_vars

Acts(t) == pc'[t] # pc[t]

WindowsNext == <<losses_15min', losses_1hr', losses_24hr'>>

\* C1: a call of approve_order or check_risk_limits that begins when
\* emergency_stop is already true can only return false, and does so at its
\* first check, whatever the capital has been set to since the stop.
C1_NoApprovalAfterStop ==
    \A t \in Threads :
        (stop_at_call[t] /\ call[t].op \in {"approve_order", "check_risk_limits"})
        => \/ pc[t] = (IF call[t].op = "approve_order" THEN "ao_221" ELSE "crl_116")
           \/ pc[t] = "ret" /\ ret[t] = "false"

\* C1 witness: after the stop, with the capital back at its high, an
\* approve_order and a check_risk_limits that began after the stop have both
\* returned false.
C1_Witness ==
    /\ emergency_stop
    /\ current_capital = daily_high
    /\ \A t \in Threads : stop_at_call[t] /\ pc[t] = "ret" /\ ret[t] = "false"
    /\ call["exec"].op = "approve_order"
    /\ call["monitor"].op = "check_risk_limits"

\* C2: emergency_stop is stable: no step of any operation turns it from true
\* back to false.
C2_EmergencyStopStable == [][emergency_stop => emergency_stop']_vars

\* C2 witness: an update_capital that began after the stop has completed and
\* left the capital within the drawdown limit, and the stop is still set.
C2_Witness ==
    /\ emergency_stop
    /\ \E t \in Threads : /\ call[t].op = "update_capital"
                          /\ stop_at_call[t]
                          /\ pc[t] = "ret"
    /\ ~DrawdownExceeds(daily_high, current_capital)

\* C3: when update_capital is called with a new capital strictly below the
\* capital held before, each of the three loss windows gains an entry, stamped
\* now, whose amount is the previous capital minus the new one.
C3_LossRecorded ==
    [][\A t \in Threads :
          (pc[t] = "uc_285" /\ Acts(t)
               /\ call[t].new_capital < current_capital)
          => \A i \in 1..3 :
                 /\ Len(WindowsNext[i]) = Len(windows[i]) + 1
                 /\ WindowsNext[i][Len(WindowsNext[i])]
                        = <<now, current_capital - call[t].new_capital>>]_vars

\* C6, as claimed: a check_risk_limits that found all breakers OK and read
\* current_capital = 70 and daily_high = 100 (drawdown exactly 0.30) returns
\* false with emergency_stop set and the open positions reported as closed.
C6_StopAtThirtyPercent ==
    \A t \in Threads :
        (pc[t] = "ret" /\ call[t].op = "check_risk_limits"
             /\ current[t] = 70 /\ daily_high_local[t] = 100)
        => (ret[t] = "false" /\ emergency_stop /\ effects.closed >= 1)

\* C6, amended: with all breakers OK and daily_high = 100, a
\* check_risk_limits that reads a current_capital below 70 (drawdown strictly
\* above 0.30) sets emergency_stop and can only return false, after having
\* reported every open position as closed; one that reads 70 or more
\* (drawdown 0.30 or less) goes on to the loss-rate checks and leaves
\* emergency_stop as it is.
C6_StopAboveThirtyPercent ==
    /\ [][\A t \in Threads :
             (pc[t] = "crl_134" /\ Acts(t) /\ pc'[t] # "panicked"
                  /\ daily_high = 100)
             => /\ emergency_stop' = emergency_stop
                /\ IF current[t] < 70 THEN pc'[t] = "tes_185"
                   ELSE pc'[t] = "cpl_166"]_vars
    /\ [](\A t \in Threads :
             (daily_high_local[t] = 100 /\ current[t] < 70)
             => \/ pc[t] = "tes_185"
                \/ pc[t] \in {"cap_324", "panicked"} /\ emergency_stop
                \/ pc[t] = "tes_191" /\ emergency_stop /\ effects.closed >= 1
                \/ /\ pc[t] = "ret" /\ ret[t] = "false" /\ emergency_stop
                   /\ effects.closed >= 1)
    /\ [][\A t \in Threads :
             (pc[t] = "cap_324" /\ pc'[t] = "tes_191")
             => closed_reported' = DOMAIN open_positions]_vars

\* C6 witness: a check_risk_limits that read 60 of a high of 100 has returned
\* false, the stop is set and both open positions were reported as closed.
C6_Witness ==
    /\ pc["monitor"] = "ret" /\ ret["monitor"] = "false"
    /\ call["monitor"].op = "check_risk_limits"
    /\ current["monitor"] = 60 /\ daily_high_local["monitor"] = 100
    /\ emergency_stop
    /\ closed_reported = {"A", "B"}

\* C9: no thread ever holds two of the RiskState mutexes at once.
C9_OneLockAtATime == \A t \in Threads : Cardinality(Held(t)) <= 1

\* C4: from all breakers OK and with the drawdown within its limit (the call
\* has reached the 15-minute check), check_risk_limits sets breaker_15m and
\* returns false when the falls of the capital inside the 15-minute window sum
\* to more than 10% of the current capital, and leaves breaker_15m alone when
\* they do not.
C4_Breaker15Trips ==
    [][\A t \in Threads :
          (pc[t] = "cpl15_177" /\ Acts(t) /\ pc'[t] # "panicked")
          => IF LossRatioExceeds(period_losses(loss_history, cutoff[t]),
                                 current_capital, loss_limit_15min_pct)
             THEN /\ circuit_breaker_15min'
                  /\ pc'[t] = "ret" /\ ret'[t] = "false"
             ELSE circuit_breaker_15min' = circuit_breaker_15min]_vars

\* C5: each breaker auto-resets: when the cooldown thread of a tripped breaker
\* comes to its end (1 hour after breaker_15m was tripped, 6 hours after
\* breaker_1h was), the breaker is OK again.
C5_BreakersAutoReset ==
    [][\A s \in sleepers :
          s \notin sleepers'
          => IF s[1] = "15min" THEN ~circuit_breaker_15min'
             ELSE ~circuit_breaker_1hr']_vars

\* The call of a thread has ended: it returned, or it will never return.
Ended(t) == pc[t] \in {"ret", "deadlocked", "panicked"}

RiskLimitsPass ==
    /\ ~emergency_stop /\ ~circuit_breaker_15min /\ ~circuit_breaker_1hr
    /\ ~DrawdownExceeds(daily_high, current_capital)

\* C7: an approve_order whose size is greater than 0.5 times current_capital
\* ends by returning false, for every pattern and every risk state in which
\* the drawdown and breaker checks pass.
C7_OversizedOrderDenied ==
    \A t \in Threads :
        (call[t].op = "approve_order" /\ Ended(t) /\ RiskLimitsPass
             /\ call[t].size * 100 > current_capital * max_order_capital_pct)
        => (pc[t] = "ret" /\ ret[t] = "false")

\* The correlation recorded for the pair (A, B), in either order.
RecordedAB ==
    {position_correlations[q] :
         q \in {<<"A", "B">>, <<"B", "A">>} \cap DOMAIN position_correlations}

\* C8: with a position of pattern A open, risk limits passing and the size
\* within the ceiling, approve_order for pattern B returns false when the
\* correlation recorded for (A, B) is 0.8 and true when it is 0.6, in
\* whichever order the pair is stored.
C8_CorrelationGate ==
    \A t \in Threads :
        (call[t].op = "approve_order" /\ call[t].pattern = "B" /\ Ended(t)
             /\ RiskLimitsPass
             /\ call[t].size * 100 <= current_capital * max_order_capital_pct
             /\ DOMAIN open_positions = {"A"} /\ open_positions["A"] = "A"
             /\ RecordedAB \in {{60}, {80}})
        => (pc[t] = "ret" /\ ret[t] = BoolStr(RecordedAB = {60}))

\* A call of check_risk_limits ends with false at once, touching no flag.
ShortCircuits(t) ==
    /\ pc'[t] = "ret" /\ ret'[t] = "false"
    /\ UNCHANGED flags

\* C10: check_risk_limits looks at emergency_stop, breaker_15m, breaker_1h,
\* the drawdown, the 15-minute loss ratio and the 1-hour loss ratio in this
\* order; a flag found set ends the call with false before any later check
\* and without changing a flag; a call changes a flag only by tripping the
\* one whose check failed, and then checks nothing more.
C10_CheckOrder ==
    [][\A t \in Threads :
          Acts(t) =>
          CASE pc[t] = "crl_116" ->
                   IF emergency_stop THEN ShortCircuits(t)
                   ELSE pc'[t] = "crl_122" /\ UNCHANGED flags
            [] pc[t] = "crl_122" ->
                   IF circuit_breaker_15min THEN ShortCircuits(t)
                   ELSE pc'[t] = "crl_127" /\ UNCHANGED flags
            [] pc[t] = "crl_127" ->
                   IF circuit_breaker_1hr THEN ShortCircuits(t)
                   ELSE pc'[t] = "crl_133" /\ UNCHANGED flags
            [] pc[t] = "crl_133" ->
                   pc'[t] \in {"crl_134", "panicked"} /\ UNCHANGED flags
            [] pc[t] = "crl_134" ->
                   /\ pc'[t] \in {"tes_185", "cpl_166", "panicked"}
                   /\ UNCHANGED flags
            [] pc[t] = "tes_185" ->
                   /\ pc'[t] = "cap_324" /\ emergency_stop'
                   /\ UNCHANGED <<circuit_breaker_15min, circuit_breaker_1hr>>
            [] pc[t] = "cap_324" ->
                   pc'[t] \in {"tes_191", "panicked"} /\ UNCHANGED flags
            [] pc[t] = "tes_191" ->
                   pc'[t] = "ret" /\ ret'[t] = "false" /\ UNCHANGED flags
            [] pc[t] = "cpl_166" ->
                   pc'[t] \in {"cpl15_177", "panicked"} /\ UNCHANGED flags
            [] pc[t] = "cpl15_177" ->
                   \/ pc'[t] \in {"cpl_167", "panicked"} /\ UNCHANGED flags
                   \/ /\ pc'[t] = "ret" /\ ret'[t] = "false"
                      /\ circuit_breaker_15min'
                      /\ UNCHANGED <<emergency_stop, circuit_breaker_1hr>>
            [] pc[t] = "cpl_167" ->
                   pc'[t] \in {"cpl1h_177", "panicked"} /\ UNCHANGED flags
            [] pc[t] = "cpl1h_177" ->
                   \/ /\ pc'[t] \in {"ret", "ao_231", "panicked"}
                      /\ UNCHANGED flags
                   \/ /\ pc'[t] = "ret" /\ ret'[t] = "false"
                      /\ circuit_breaker_1hr'
                      /\ UNCHANGED <<emergency_stop, circuit_breaker_15min>>
            [] OTHER -> UNCHANGED flags]_vars

\* C10 witness: the capital has fallen by more than 30% of its high, yet a
\* check_risk_limits that found breaker_15m tripped has returned false without
\* reading the capital, and emergency_stop is not set.
C10_Witness ==
    /\ pc["monitor"] = "ret" /\ ret["monitor"] = "false"
    /\ circuit_breaker_15min /\ ~emergency_stop
    /\ DrawdownExceeds(daily_high, current_capital)
    /\ current["monitor"] = 0 /\ daily_high_local["monitor"] = 0

\* The number of positions of pattern p in the open-position registry.
OpenOf(p) ==
    Cardinality({k \in DOMAIN open_positions : open_positions[k] = p})

\* C11: approve_order never returns true when the registry holds 10 or more
\* positions of its pattern: the count check returns false at once, and a call
\* that went past the check holds the registry lock with fewer than 10
\* positions of its pattern in it; positions of other patterns do not count,
\* the call goes on to the correlation gate however many of them are open.
C11_PositionLimit ==
    /\ [][\A t \in Threads :
             (pc[t] = "ao_231" /\ Acts(t) /\ pc'[t] # "panicked")
             => IF OpenOf(call[t].pattern)
                       >= max_concurrent_positions
                THEN pc'[t] = "ret" /\ ret'[t] = "false"
                ELSE pc'[t] = "cpc_262"]_vars
    /\ [](\A t \in Threads :
             /\ (call[t].op = "approve_order"
                     /\ pc[t] \in {"cpc_262", "deadlocked"})
                => OpenOf(call[t].pattern)
                       < max_concurrent_positions
             /\ (call[t].op = "approve_order" /\ pc[t] = "ret"
                     /\ OpenOf(call[t].pattern)
                            >= max_concurrent_positions)
                => ret[t] = "false")

\* C11 witness: with 10 positions of pattern A and one of pattern B open and
\* the risk limits passing, approve_order for A has returned false.
C11_Witness ==
    /\ call["exec"].op = "approve_order" /\ call["exec"].pattern = "A"
    /\ pc["exec"] = "ret" /\ ret["exec"] = "false"
    /\ RiskLimitsPass
    /\ OpenOf("A") = max_concurrent_positions
    /\ OpenOf("B") = 1

\* C12: daily_high never decreases: every step of every interleaving of
\* update_capital, check_risk_limits and approve_order leaves it at or above
\* its value before the step; and current_capital changes only in a step of
\* update_capital (line 285).
C12_DailyHighMonotone ==
    [][/\ daily_high' >= daily_high
       /\ current_capital' # current_capital
          => \E t \in Threads : /\ call[t].op = "update_capital"
                                /\ pc[t] = "uc_285" /\ Acts(t)]_vars

\* C12 witness: update_capital has returned with the capital fallen to 60
\* after it had risen to 200, and daily_high is still 200.
C12_Witness ==
    /\ \E t \in Threads : /\ call[t].op = "update_capital"
                          /\ call[t].new_capital = 60
                          /\ pc[t] = "ret"
    /\ current_capital = 60
    /\ daily_high = 200

\* A step of validate_pattern: it records its arguments.
Validates == validate_args' # validate_args \/ promoted' # promoted

\* The sample passes validation: at least 100 results, and wins / results
\* at least 0.55.
Passes(results) ==
    /\ len(results) >= 100
    /\ wins_of(results) * 100 >= 55 * len(results)

\* C13: validate_pattern(h, results) inserts a Pattern for h into
\* active_patterns (and appends it to pattern_queue) if and only if the
\* sample has at least min_tests_required results and a win rate of at least
\* min_win_rate; otherwise nothing changes.
C13_PromotionRule ==
    [][Validates =>
          LET h == validate_args'.h
              results == validate_args'.results
          IN  IF Passes(results)
              THEN /\ h.hash \in DOMAIN active_patterns'
                   /\ active_patterns'[h.hash].hypothesis = h
                   /\ active_patterns'[h.hash].test_count = len(results)
                   /\ active_patterns'[h.hash].win_count = wins_of(results)
                   /\ pattern_queue'
                          = Append(pattern_queue, active_patterns'[h.hash])
                   /\ \A k \in DOMAIN active_patterns' \ {h.hash} :
                          /\ k \in DOMAIN active_patterns
                          /\ active_patterns'[k] = active_patterns[k]
              ELSE UNCHANGED promoted]_vars

\* C13 witness: h1 was promoted from 100 results with 55 wins, and h2 has
\* just been validated against 99 results with 55 wins and is not promoted.
C13_Witness ==
    /\ "h1" \in DOMAIN active_patterns
    /\ active_patterns["h1"].test_count = 100
    /\ active_patterns["h1"].win_count = 55
    /\ validate_args.h.hash = "h2"
    /\ len(validate_args.results) = 99
    /\ wins_of(validate_args.results) = 55
    /\ "h2" \notin DOMAIN active_patterns

\* C14: when validate_pattern is called for a hypothesis that has a Pattern
\* in active_patterns, with a larger sample whose win rate is below
\* min_win_rate, the Pattern is still there afterwards and its is_active is
\* false.
C14_Demotion ==
    [][Validates =>
          LET h == validate_args'.h
              results == validate_args'.results
          IN  (/\ h.hash \in DOMAIN active_patterns
               /\ len(results) > active_patterns[h.hash].test_count
               /\ wins_of(results) * 100 < 55 * len(results))
              => /\ h.hash \in DOMAIN active_patterns'
                 /\ ~active_patterns'[h.hash].is_active]_vars

\* The patterns the engine holds.
HeldPatterns ==
    {active_patterns[k] : k \in DOMAIN active_patterns}
        \cup {pattern_queue[i] : i \in 1..Len(pattern_queue)}

\* C15: every Pattern in active_patterns or pattern_queue has
\* win_count <= test_count, test_count >= min_tests_required,
\* win_rate = win_count / test_count, win_rate >= min_win_rate, generation 0
\* and no parent patterns, and is stored under the hash of its hypothesis.
C15_PatternInvariant ==
    /\ \A p \in HeldPatterns :
           /\ p.win_count <= p.test_count
           /\ p.test_count >= 100
           /\ p.win_rate.den # 0
           /\ p.win_rate.num * p.test_count = p.win_count * p.win_rate.den
           /\ p.win_rate.num * 100 >= 55 * p.win_rate.den
           /\ p.generation = 0
           /\ p.parent_patterns = <<>>
           /\ p.hash = p.hypothesis.hash
    /\ \A k \in DOMAIN active_patterns : active_patterns[k].hash = k

\* C15 witness: both hypotheses are promoted, one of them from 101 results,
\* and the queue holds three patterns.
C15_Witness ==
    /\ DOMAIN active_patterns = Hashes
    /\ \E k \in Hashes : active_patterns[k].test_count = 101
    /\ Len(pattern_queue) = 3

\* C16: calculate_position_size returns exactly 0 whenever the pattern's
\* win rate is below 0.55, or its average win is 0, or its average loss is
\* 0, for every available capital.
C16_NoSizeWithoutEdge ==
    (/\ size_ret.called
     /\ \/ size_args.pattern.win_rate < 55
        \/ size_args.pattern.avg_win_amount = 0
        \/ size_args.pattern.avg_loss_amount = 0)
    => size_ret.num = 0

\* C16 witness: a pattern that wins every time, with an average win of 2
\* and an average loss of 0, is sized at 0 with 1000 available.
C16_Witness ==
    /\ size_ret.called
    /\ size_args.pattern = [win_rate |-> 100, avg_win_amount |-> 2,
                            avg_loss_amount |-> 0]
    /\ size_args.available_capital = 1000
    /\ size_ret.num = 0

\* The raw Kelly fraction (p * b - q) / b of the arguments is negative.
RawKellyNegative ==
    LET p == size_args.pattern.win_rate
        w == size_args.pattern.avg_win_amount
        l == Abs(size_args.pattern.avg_loss_amount)
    IN  /\ w # 0 /\ l # 0
        /\ IF w > 0 THEN p * w < (100 - p) * l ELSE p * w > (100 - p) * l

\* C17: for a non-negative available capital the result of
\* calculate_position_size is 0 or lies between $5 and 25% of the available
\* capital; it is 0 when the raw Kelly fraction is negative.
C17_SizeRange ==
    (size_ret.called /\ size_args.available_capital >= 0)
    => /\ \/ size_ret.num = 0
          \/ /\ size_ret.num >= 5 * size_ret.den
             /\ size_ret.num * 100
                    <= 25 * size_args.available_capital * size_ret.den
       /\ RawKellyNegative => size_ret.num = 0

\* C17 witness: a size strictly between $5 and the cap of 25% of the
\* available capital has been returned.
C17_Witness ==
    /\ size_ret.called
    /\ size_ret.num > 5 * size_ret.den
    /\ size_ret.num * 100 < 25 * size_args.available_capital * size_ret.den

\* C18: test_hypothesis returns a TestResult to the loop only after that
\* result was recorded in the store: once the trial is in the hands of the
\* loop, the write of store_test_result has succeeded.
C18_WriteBeforeReturn ==
    dpc \in {"drl_270", "drl_272", "drl_277"} => stored = "Ok"

\* A step of the discovery loop.
LoopActs == dpc' # dpc

\* Table test_results changes only by a successful write of the trial just
\* run, and validate_pattern is given exactly the rows stored under the hash
\* of the hypothesis.
C19_OnlyWrittenCounted ==
    [][/\ test_results' # test_results
          => /\ dpc = "th_136" /\ db_up /\ stored' = "Ok"
             /\ Rows(test_results', hypothesis.hash)
                    = [Rows(test_results, hypothesis.hash)
                           EXCEPT ![trade] = @ + 1]
       /\ (dpc = "th_136" /\ LoopActs /\ ~db_up)
          => stored' = "Err" /\ test_results' = test_results
       /\ (dpc = "drl_272" /\ LoopActs)
          => validate_args'.results = Rows(test_results, hypothesis.hash)]_vars

\* A failed write and a failed read leave the loop running: it goes on to
\* its next statement.
C19_LoopRuns ==
    [][/\ (dpc = "th_136" /\ LoopActs) => dpc' = "th_138"
       /\ (dpc = "drl_270" /\ LoopActs /\ ~db_up)
          => dpc' = "drl_277" /\ ~fetched'.some]_vars

C20_StoreIdempotent ==
    [][(/\ dpc = "drl_264" /\ LoopActs
        /\ hypothesis.hash \in DOMAIN discovered_patterns)
       => /\ discovered_patterns' = discovered_patterns
          /\ test_results' = test_results
          /\ db_up => store_hypothesis_ret' = "Ok"]_vars

\* C20 witness: a second hypothesis with a stored hash and other entry
\* conditions has been stored without error; the row is the first one's and
\* the hash has its trial on record.
C20_Witness ==
    /\ dpc = "th_133"
    /\ store_hypothesis_ret = "Ok"
    /\ hypothesis.hash \in DOMAIN discovered_patterns
    /\ discovered_patterns[hypothesis.hash].entry_conditions
           # hypothesis.entry_conditions
    /\ len(Rows(test_results, hypothesis.hash)) \in {1, 100}

\* C21: every Hypothesis generate_hypothesis returns has a non-empty hash,
\* 1 to 5 entry conditions, 1 to 3 exit conditions and a timeframe of 1 to
\* 1439 minutes.
C21_GeneratedInRange ==
    generated.called =>
        /\ Len(generated.h.hash) > 0
        /\ generated.h.entry_conditions >= 1
        /\ generated.h.entry_conditions <= 5
        /\ generated.h.exit_conditions >= 1
        /\ generated.h.exit_conditions <= 3
        /\ generated.h.timeframe >= 1
        /\ generated.h.timeframe <= 1439

\* C21 happens: the generator returned the hypothesis with the most entry
\* and exit conditions and the longest timeframe.
C21_Witness ==
    /\ generated.called
    /\ generated.h.entry_conditions = 5
    /\ generated.h.exit_conditions = 3
    /\ generated.h.timeframe = 1439
    /\ Len(generated.h.hash) = 16

\* The positions at which a task has ended: run_discovery_loop has returned,
\* the closure of start_monitoring_system has returned.
DiscoveryEnded == dpc = "returned"

MonitoringEnded == pc["monitor"] = "returned"

\* C22: after a shutdown signal the discovery loop and the monitoring task
\* each eventually terminate, leaving no trial or pattern partially written
\* (a trial is one row of one INSERT, so what is on record is always whole).
C22_TerminatesOnShutdown ==
    shutdown ~> (DiscoveryEnded /\ MonitoringEnded)

\* C23: every call of approve_order returns a boolean: whenever
\* check_risk_limits passes, the call gets through its position, correlation
\* and size checks and is never left blocked on, or unwound by, a lock that
\* it holds itself.
C23_ApproveOrderReturns ==
    \A t \in Threads :
        call[t].op = "approve_order" => pc[t] \notin {"deadlocked", "panicked"}

\* C24: check_risk_limits sets emergency_stop only if the drawdown
\* (daily_high - current_capital) / daily_high exceeded max_daily_drawdown_pct
\* in some state the risk state went through.  The drawdown is zero until the
\* capital first falls, so while update_capital has only raised the capital
\* (100 to 200 with daily_high 100) no interleaving sets emergency_stop.
C24_StopOnlyOnDrawdown == emergency_stop => loss_history # <<>>

\* C25: in every execution the side effects of the emergency stop (closing
\* the positions, saving the state, sending the alerts) run at most once, and
\* only after emergency_stop was stored as true.
C25_StopEffectsOnce ==
    /\ effects.closed <= 1
    /\ effects.saved <= 1
    /\ effects.alerted <= 1
    /\ effects.closed + effects.saved + effects.alerted > 0 => emergency_stop

\* C26: with hashes that never repeat every iteration of the discovery loop
\* runs one trial of a new hypothesis, so no hash has more than one trial on
\* record; the loop never reaches the call of validate_pattern (line 272)
\* and active_patterns and pattern_queue stay empty.
C26_NeverValidates ==
    /\ \A hash \in Hashes : len(Rows(test_results, hash)) <= 1
    /\ dpc # "drl_272"
    /\ validate_args = [h |-> NoHypothesis, results |-> NoResults]
    /\ active_patterns = <<>>
    /\ pattern_queue = <<>>

\* C26 happens: the second iteration has read the single trial of its
\* hypothesis, the trial of the first being on record too, and goes to sleep
\* without validating.
C26_Witness ==
    /\ iterations = 2
    /\ dpc = "drl_277"
    /\ fetched.some
    /\ len(fetched.results) = 1
    /\ \A hash \in Hashes : len(Rows(test_results, hash)) = 1

\* The thread is in, enters or leaves a call of approve_order or of
\* check_risk_limits.
Guarding(t) ==
    \/ call[t].op \in {"approve_order", "check_risk_limits"}
    \/ call'[t].op \in {"approve_order", "check_risk_limits"}

\* C27: no step of approve_order or check_risk_limits changes
\* current_capital, daily_high, a loss window, the open-position registry or
\* the correlation map; all such a call may change is a breaker or the
\* emergency flag, and a check_risk_limits that changes one goes on to
\* return false, so that one returning true has changed nothing.
C27_ReadOnlyGates ==
    [][\A t \in Threads :
           Acts(t) /\ Guarding(t) =>
               /\ UNCHANGED <<capital, windows, registry>>
               /\ flags' # flags =>
                      \/ pc'[t] = "cap_324"
                      \/ pc'[t] = "ret" /\ ret'[t] = "false"
               /\ pc[t] \in {"cap_324", "tes_191"} =>
                      \/ pc'[t] \in {"tes_191", "panicked"}
                      \/ pc'[t] = "ret" /\ ret'[t] = "false"]_vars

\* C27 happens: a call has stored the emergency stop and reported the open
\* positions as closed, and the registry still holds them.
C27_Witness ==
    \E t \in Threads :
        /\ pc[t] = "tes_191"
        /\ emergency_stop
        /\ closed_reported # {}
        /\ DOMAIN open_positions = closed_reported

==========================================================================
